---- MODULE Spec2Model ----
(***************************************************************************)
(* Model of src/src/data_io.py: the Count Decoder                          *)
(* (extract_count_from_datetime), the count assembly of load_excel_data,   *)
(* the Validity Filter (clean_observations) and the annual rollup          *)
(* (get_annual_summary).                                                   *)
(*                                                                         *)
(* A pandas table is a record holding which optional columns exist and a   *)
(* sequence of rows; each row carries its pandas index label.  A cell is a *)
(* tagged record: Num(v) a number, Str(s) a text, NaN the missing marker,  *)
(* Absent the content of a column the table does not have.                 *)
(***************************************************************************)
EXTENDS Integers, Sequences, FiniteSets, TLC

VARIABLES
    input,       \* the table as the caller passed it to clean_observations
    df,          \* the caller's table object, as it is after the call
    out,         \* what clean_observations produced (Null before the call)
    summary,     \* what get_annual_summary produced (Null before the call)
    round,       \* how many times the caller has fed a table to clean_observations
    pc,          \* the caller's position in the pipeline
    dt_series,   \* the column handed to extract_count_from_datetime
    decoded,     \* the column it returned (Null before the call)
    sheet,       \* the four detection-method columns of the observation sheet
    observations,\* what load_excel_data produced from the sheet
    subset,      \* one year's rows handed to the Shannon diversity operation
    shannon      \* the index it returned (Null before the call)

vars == <<input, df, out, summary, round, pc, dt_series, decoded, sheet, observations,
          subset, shannon>>

cleanVars == <<input, df, out, summary, round>>
decodeVars == <<dt_series, decoded>>
loadVars == <<sheet, observations>>
indexVars == <<subset, shannon>>

(***************************************************************************)
(* Bounds of the model.                                                    *)
(***************************************************************************)
MaxRows == 3        \* rows of a table given to clean_observations
MaxLen == 3         \* cells of a column given to extract_count_from_datetime
MaxSheetRows == 1   \* rows of the observation sheet given to load_excel_data
MaxRounds == 2      \* applications of clean_observations in one run
MaxSubset == 3      \* rows of a year's subset given to the Shannon operation
MaxPipelineRows == 2 \* rows of the observation sheet run through load and clean

(***************************************************************************)
(* Cells.                                                                  *)
(***************************************************************************)
Null == [k |-> "null"]
NaN == [k |-> "nan"]
Absent == [k |-> "absent"]
Num(v) == [k |-> "num", v |-> v]
Str(s) == [k |-> "str", s |-> s]

\* pandas isna / notna on one cell
isna(x) == x.k = "nan"
notna(x) == ~isna(x)

\* x < 0 and x > 0 on one cell: a comparison with NaN is False
LtZero(x) == x.k = "num" /\ x.v < 0

\* mutant of GtZero: the comparison written >= 0
GtZeroOrEqual(x) == x.k = "num" /\ x.v >= 0

GtZero(x) == x.k = "num" /\ x.v > 0

(***************************************************************************)
(* Tables given to clean_observations.                                     *)
(***************************************************************************)
Nominal ==
    [year |-> Num(2012), species_name |-> Str("A"), transect_name |-> Str("T1"),
     observer_name |-> Str("O1"), individual_count |-> Num(3), wind |-> Num(1)]

\* The rows a table is drawn from: the nominal row, every row that differs
\* from it in one field, and some rows that differ in several.
RowInputs ==
    {Nominal}
    \cup {[Nominal EXCEPT !.year = y] : y \in {NaN, Num(2013)}}
    \cup {[Nominal EXCEPT !.species_name = x] : x \in {NaN, Str("B")}}
    \cup {[Nominal EXCEPT !.transect_name = x] : x \in {NaN, Str("T2")}}
    \cup {[Nominal EXCEPT !.observer_name = x] : x \in {NaN, Str("O2")}}
    \cup {[Nominal EXCEPT !.individual_count = x] : x \in {NaN, Num(0), Num(-1), Num(1)}}
    \cup {[Nominal EXCEPT !.wind = x] : x \in {NaN, Num(-1), Num(0)}}
    \cup {[Nominal EXCEPT !.individual_count = NaN, !.species_name = NaN],
          [Nominal EXCEPT !.individual_count = Num(0), !.wind = Num(-1)],
          [Nominal EXCEPT !.year = Num(2013), !.species_name = Str("B"), !.wind = Num(-1)]}

\* A freshly built table: RangeIndex 0..n-1, no observation_id column.
MkRow(r, i, w) ==
    [index |-> i - 1, year |-> r.year, species_name |-> r.species_name,
     transect_name |-> r.transect_name, observer_name |-> r.observer_name,
     individual_count |-> r.individual_count,
     wind |-> IF w THEN r.wind ELSE Absent, observation_id |-> Absent]

MkTable(w, s) ==
    [wind_col |-> w, id_col |-> FALSE, rows |-> [i \in DOMAIN s |-> MkRow(s[i], i, w)]]

Tables ==
    {MkTable(w, s) : w \in BOOLEAN, s \in UNION {[1..n -> RowInputs] : n \in 0..MaxRows}}

(***************************************************************************)
(* clean_observations                                                      *)
(***************************************************************************)
\* (df_clean['wind'] < 0).sum()
NegativeWind(t) == Cardinality({i \in DOMAIN t.rows : LtZero(t.rows[i].wind)})

\* mutant of FixWind: the mask written <= 0
FixWindLeZero(t) ==
    IF t.wind_col
    THEN [t EXCEPT !.rows = [i \in DOMAIN t.rows |->
              IF t.rows[i].wind.k = "num" /\ t.rows[i].wind.v <= 0
              THEN [t.rows[i] EXCEPT !.wind = NaN] ELSE t.rows[i]]]
    ELSE t

\* fix negative wind values: df_clean.loc[df_clean['wind'] < 0, 'wind'] = np.nan
FixWind(t) ==
    IF t.wind_col /\ NegativeWind(t) > 0
    THEN [t EXCEPT !.rows = [i \in DOMAIN t.rows |->
              IF LtZero(t.rows[i].wind)
              THEN [t.rows[i] EXCEPT !.wind = NaN] ELSE t.rows[i]]]
    ELSE t

\* df_clean = df.copy(): every write lands in the copy, the caller's table stays
CallerTable(t) == t

\* df_clean[df_clean['individual_count'] > 0]
FilterCounts(t) ==
    [t EXCEPT !.rows = SelectSeq(t.rows, LAMBDA r : GtZero(r.individual_count))]

essential_cols == {"year", "species_name", "individual_count", "transect_name"}

HasEssentials(r) == \A c \in essential_cols : notna(r[c])

\* mutant of DropNa: a removal loop that skips the row after each removed row
RECURSIVE DropSkipping(_)
DropSkipping(s) ==
    IF s = <<>> THEN <<>>
    ELSE IF HasEssentials(Head(s)) THEN <<Head(s)>> \o DropSkipping(Tail(s))
    ELSE IF Len(s) = 1 THEN <<>>
    ELSE <<s[2]>> \o DropSkipping(Tail(Tail(s)))

DropNaSkipping(t) == [t EXCEPT !.rows = DropSkipping(t.rows)]

\* df_clean.dropna(subset=essential_cols)
DropNa(t) == [t EXCEPT !.rows = SelectSeq(t.rows, HasEssentials)]

\* mutant of AssignIds: range(0, len(df_clean))
AssignIdsFromZero(t) ==
    [t EXCEPT !.id_col = TRUE,
              !.rows = [i \in DOMAIN t.rows |->
                           [t.rows[i] EXCEPT !.observation_id = Num(i - 1)]]]

\* df_clean['observation_id'] = range(1, len(df_clean) + 1)
AssignIds(t) ==
    [t EXCEPT !.id_col = TRUE,
              !.rows = [i \in DOMAIN t.rows |->
                           [t.rows[i] EXCEPT !.observation_id = Num(i)]]]

\* The whole function: the returned table, with the table after each stage
\* and the counts the function reports.
clean_observations(t) ==
    LET start == t
        after_wind == FixWind(start)
        after_counts == FilterCounts(after_wind)
        after_dropna == DropNa(after_counts)
    IN  [df_clean |-> AssignIds(after_dropna),
         starting |-> Len(start.rows),
         n_negative |-> IF t.wind_col THEN NegativeWind(start) ELSE 0,
         after_wind |-> after_wind,
         after_counts |-> after_counts,
         removed_counts |-> Len(after_wind.rows) - Len(after_counts.rows),
         removed_missing |-> Len(after_counts.rows) - Len(after_dropna.rows)]

(***************************************************************************)
(* get_annual_summary                                                      *)
(***************************************************************************)
RECURSIVE SumCounts(_)
\* 'sum': missing values are skipped
SumCounts(s) ==
    IF s = <<>> THEN 0
    ELSE (IF Head(s).individual_count.k = "num" THEN Head(s).individual_count.v ELSE 0)
         + SumCounts(Tail(s))

\* 'count': the non-missing cells of a column
CountCol(s, c) == Cardinality({i \in DOMAIN s : notna(s[i][c])})

\* mutant of NUnique: 'count' written for 'nunique'
NUniqueAsCount(s, c) == CountCol(s, c)

\* 'nunique': the distinct non-missing values of a column
NUnique(s, c) == Cardinality({s[i][c] : i \in DOMAIN s} \ {NaN})

\* df.groupby('year'): one group per non-missing year
YearKeys(t) == {t.rows[i].year : i \in DOMAIN t.rows} \ {NaN}

\* The summary table: one row per group, keyed by the group's year.
get_annual_summary(t) ==
    [k |-> "summary", by_year |->
     [y \in YearKeys(t) |->
        LET g == SelectSeq(t.rows, LAMBDA r : r.year = y)
        IN  [n_observations |-> CountCol(g, "observation_id"),
             n_species |-> NUnique(g, "species_name"),
             total_abundance |-> SumCounts(g),
             n_transects |-> NUnique(g, "transect_name"),
             n_observers |-> NUnique(g, "observer_name")]]]

(***************************************************************************)
(* The cleaning pipeline as a state machine: the caller cleans a table,    *)
(* may summarise the result, and may feed the result to the cleaner again. *)
(***************************************************************************)
Init ==
    /\ input \in Tables
    /\ df = input
    /\ out = Null
    /\ summary = Null
    /\ round = 1
    /\ pc = "ready"
    /\ dt_series = Null /\ decoded = Null
    /\ sheet = Null /\ observations = Null
    /\ subset = Null /\ shannon = Null

CleanObservations ==
    /\ pc = "ready"
    /\ out' = clean_observations(df)
    /\ df' = CallerTable(df)
    /\ pc' = "cleaned"
    /\ UNCHANGED <<input, summary, round, decodeVars, loadVars, indexVars>>

GetAnnualSummary ==
    /\ pc = "cleaned"
    /\ summary.k = "null"
    /\ summary' = get_annual_summary(out.df_clean)
    /\ UNCHANGED <<input, df, out, round, pc, decodeVars, loadVars, indexVars>>

\* The caller passes the cleaned table to clean_observations again.
CleanAgain ==
    /\ pc = "cleaned"
    /\ round < MaxRounds
    /\ input' = out.df_clean
    /\ df' = out.df_clean
    /\ out' = Null
    /\ summary' = Null
    /\ round' = round + 1
    /\ pc' = "ready"
    /\ UNCHANGED <<decodeVars, loadVars, indexVars>>

Next == CleanObservations \/ GetAnnualSummary \/ CleanAgain

Spec == Init /\ [][Next]_vars

(***************************************************************************)
(* Properties of clean_observations and get_annual_summary.                *)
(***************************************************************************)
Cleaned == pc = "cleaned"

\* The position in table t of the row carrying index label x.
PosOf(t, x) == CHOOSE j \in DOMAIN t.rows : t.rows[j].index = x

Present(x) == x.k \in {"num", "str"}

Positive(x) == x.k = "num" /\ 0 < x.v

\* A row that must survive cleaning: positive count, essential fields present.
Qualifies(r) ==
    /\ Positive(r.individual_count)
    /\ Present(r.year) /\ Present(r.species_name) /\ Present(r.transect_name)

\* C1: every row of the table clean_observations returns has
\* individual_count > 0 and year, species_name and transect_name present; when
\* no input row qualifies, the call returns the empty table.
C1_RetainedRowsValid ==
    Cleaned =>
        /\ \A i \in DOMAIN out.df_clean.rows : Qualifies(out.df_clean.rows[i])
        /\ (\A i \in DOMAIN input.rows : ~Qualifies(input.rows[i]))
              => (out.df_clean.rows = <<>> /\ out.df_clean.id_col)

C1_Witness ==
    /\ Cleaned /\ round = 1
    /\ out.removed_counts > 0 /\ out.removed_missing > 0
    /\ Len(out.df_clean.rows) > 0

\* C2: the observation_id values of the returned table are 1, 2, ..., n in row
\* order, and the surviving rows keep the relative order they had in the input.
C2_DenseIdsStableOrder ==
    Cleaned =>
        LET rows == out.df_clean.rows IN
        /\ \A i \in DOMAIN rows : rows[i].observation_id = Num(i)
        /\ \A i \in DOMAIN rows :
              /\ \E j \in DOMAIN input.rows : input.rows[j].index = rows[i].index
              /\ LET r == input.rows[PosOf(input, rows[i].index)] IN
                 /\ rows[i].year = r.year
                 /\ rows[i].species_name = r.species_name
                 /\ rows[i].transect_name = r.transect_name
                 /\ rows[i].observer_name = r.observer_name
                 /\ rows[i].individual_count = r.individual_count
        /\ \A i1, i2 \in DOMAIN rows :
              i1 < i2 => PosOf(input, rows[i1].index) < PosOf(input, rows[i2].index)

\* two survivors around a removed row
C2_Witness ==
    /\ Cleaned /\ round = 1
    /\ Len(input.rows) = 3 /\ Len(out.df_clean.rows) = 2
    /\ out.df_clean.rows[1].index = 0 /\ out.df_clean.rows[2].index = 2

LeZero(x) == x.k = "num" /\ x.v <= 0

MissingEssential(r) ==
    \/ r.year = NaN \/ r.species_name = NaN
    \/ r.individual_count = NaN \/ r.transect_name = NaN

HowMany(t, P(_)) == Cardinality({i \in DOMAIN t.rows : P(t.rows[i])})

\* C3: the count removed by stage 2 is the number of input rows with
\* individual_count <= 0, a row whose individual_count is missing gets past
\* stage 2 and is removed by stage 3, the count removed by stage 3 is the number
\* of rows left after stage 2 that miss an essential field, and output rows =
\* input rows - stage-2 count - stage-3 count.
C3_StageCountsAttributable ==
    Cleaned =>
        /\ out.removed_counts = HowMany(input, LAMBDA r : LeZero(r.individual_count))
        /\ \A i \in DOMAIN input.rows :
              input.rows[i].individual_count = NaN
                 => \E j \in DOMAIN out.after_counts.rows :
                       out.after_counts.rows[j].index = input.rows[i].index
        /\ out.removed_missing = HowMany(out.after_counts, MissingEssential)
        /\ Len(out.df_clean.rows)
              = Len(input.rows) - out.removed_counts - out.removed_missing

\* C4: the wind stage replaces every wind value < 0 with missing and changes
\* nothing else: same row count, every other wind value and every other column
\* unchanged, an otherwise valid row with negative wind is in the final output,
\* and the caller's table is not modified.
C4_WindCorrectionFrame ==
    Cleaned =>
        LET before == input.rows
            after == out.after_wind.rows IN
        /\ Len(after) = Len(before)
        /\ out.after_wind.wind_col = input.wind_col
        /\ \A i \in DOMAIN before :
              /\ (before[i].wind.k = "num" /\ before[i].wind.v < 0) => after[i].wind = NaN
              /\ ~(before[i].wind.k = "num" /\ before[i].wind.v < 0)
                    => after[i].wind = before[i].wind
              /\ [after[i] EXCEPT !.wind = Absent] = [before[i] EXCEPT !.wind = Absent]
        /\ \A i \in DOMAIN before :
              (before[i].wind.k = "num" /\ before[i].wind.v < 0 /\ Qualifies(before[i]))
                 => \E j \in DOMAIN out.df_clean.rows :
                       /\ out.df_clean.rows[j].index = before[i].index
                       /\ out.df_clean.rows[j].wind = NaN
        /\ df = input

\* a negative wind next to a zero wind, the negative one's row surviving
C4_Witness ==
    /\ Cleaned /\ round = 1
    /\ out.n_negative > 0
    /\ \E i, j \in DOMAIN input.rows :
          /\ input.rows[i].wind = Num(-1) /\ Qualifies(input.rows[i])
          /\ input.rows[j].wind = Num(0)
    /\ \E j \in DOMAIN out.df_clean.rows : out.df_clean.rows[j].wind = NaN

\* C9: clean_observations applied to its own output returns that output: same
\* rows, same order, same observation_id values, nothing removed or corrected.
C9_Idempotent ==
    (Cleaned /\ round >= 2) =>
        /\ out.df_clean = input
        /\ out.n_negative = 0
        /\ out.removed_counts = 0
        /\ out.removed_missing = 0

\* the second application, on a table the first one removed a row from
C9_Witness ==
    /\ Cleaned /\ round = 2
    /\ Len(out.df_clean.rows) >= 2
    /\ out.df_clean.rows[Len(out.df_clean.rows)].index >= Len(out.df_clean.rows)

RECURSIVE TotalOf(_, _)
\* The total individual_count of the rows of s at the positions in S.
TotalOf(s, S) ==
    IF S = {} THEN 0
    ELSE LET i == CHOOSE x \in S : TRUE
         IN  s[i].individual_count.v + TotalOf(s, S \ {i})

RECURSIVE Total(_, _, _)
\* The total of field f of the summary rows for the years in Y.
Total(f, by_year, Y) ==
    IF Y = {} THEN 0
    ELSE LET y == CHOOSE x \in Y : TRUE
         IN  by_year[y][f] + Total(f, by_year, Y \ {y})

\* C10: get_annual_summary over a cleaned table has exactly one row per year
\* present in the table; n_observations is the number of rows of the year,
\* total_abundance the sum of their individual_count, n_species, n_transects
\* and n_observers the numbers of distinct species_name, transect_name and
\* observer_name values among them; n_observations summed over the years is the
\* row count, total_abundance summed over the years the total individual_count.
C10_AnnualSummary ==
    summary.k = "summary" =>
        LET rows == out.df_clean.rows
            years == {rows[i].year : i \in DOMAIN rows}
            of(y) == {i \in DOMAIN rows : rows[i].year = y}
            distinct(y, c) == {rows[i][c] : i \in of(y)} \ {NaN}
            s == summary.by_year IN
        /\ DOMAIN s = years
        /\ \A y \in years :
              /\ s[y].n_observations = Cardinality(of(y))
              /\ s[y].total_abundance = TotalOf(rows, of(y))
              /\ s[y].n_species = Cardinality(distinct(y, "species_name"))
              /\ s[y].n_transects = Cardinality(distinct(y, "transect_name"))
              /\ s[y].n_observers = Cardinality(distinct(y, "observer_name"))
        /\ Total("n_observations", s, years) = Len(rows)
        /\ Total("total_abundance", s, years) = TotalOf(rows, DOMAIN rows)

\* two years, one of them with two rows of the same species
C10_Witness ==
    /\ summary.k = "summary"
    /\ Cardinality(DOMAIN summary.by_year) = 2
    /\ \E y \in DOMAIN summary.by_year :
          summary.by_year[y].n_observations = 2 /\ summary.by_year[y].n_species = 1

(***************************************************************************)
(* extract_count_from_datetime                                             *)
(*                                                                         *)
(* A column is a dtype and a sequence of cells.  A datetime64 column holds *)
(* Ts(ns), a timestamp as its int64 count of nanoseconds since the epoch,  *)
(* or NaT; a numeric column holds Num(v) or NaN; an object column holds    *)
(* texts, timestamp objects and NaN (None).  TLC's integers are 32 bits    *)
(* wide, so the timestamps lie within about two seconds of the epoch.      *)
(***************************************************************************)
NsPerSec == 1000000000

NaT == [k |-> "nat"]
Ts(ns) == [k |-> "ts", ns |-> ns]

\* mutant of Modulo: the remainder of truncated division (sign of the dividend)
TruncatedRemainder(a, m) == IF a >= 0 THEN a % m ELSE 0 - ((0 - a) % m)

\* the % of Python and numpy: for m > 0 the result is in 0..m-1
Modulo(a, m) == a % m

RECURSIVE Pow2Mod(_, _)
Pow2Mod(e, m) == IF e = 0 THEN 1 % m ELSE (2 * Pow2Mod(e - 1, m)) % m

\* astype(np.int64) of a datetime64 cell, then % m.  NaT is stored as the int64
\* minimum, -2^63, and astype hands that integer out like any other.
Int64Mod(c, m) ==
    IF c.k = "nat" THEN (m - Pow2Mod(63, m)) % m ELSE Modulo(c.ns, m)

\* What pandas reads in a text as a timestamp (NaT when it reads none).
ParseTimestamp(s) ==
    CASE s = "1970-01-01T00:00:00.000000007" -> Ts(7)
      [] s = "1970-01-01T00:00:01.000000007" -> Ts(NsPerSec + 7)
      [] s = "1969-12-31T23:59:59.999999995" -> Ts(0 - 5)
      [] OTHER -> NaT

\* What pandas reads in a text as a number (NaN when it reads none).
ParseNumber(s) ==
    CASE s = "12" -> Num(12)
      [] s = "5" -> Num(5)
      [] OTHER -> NaN

\* pd.to_datetime(..., errors='coerce') on one cell of an object column
to_datetime(c) ==
    CASE c.k = "ts" -> c
      [] c.k = "str" -> ParseTimestamp(c.s)
      [] OTHER -> NaT

\* pd.to_numeric(..., errors='coerce') on one cell of a column of dtype d:
\* a datetime64 column is viewed as int64, an object that is no number and no
\* numeric text is coerced to NaN
to_numeric(c, d) ==
    CASE d = "datetime64" -> Num(c.ns)
      [] d = "numeric" -> c
      [] OTHER -> IF c.k = "str" THEN ParseNumber(c.s) ELSE NaN

extract_count_from_datetime(col) ==
    LET cells == col.cells IN
    IF col.dtype = "datetime64"
    THEN [i \in DOMAIN cells |-> Num(Int64Mod(cells[i], NsPerSec))]
    ELSE IF col.dtype = "numeric"
    THEN [i \in DOMAIN cells |-> to_numeric(cells[i], "numeric")]
    ELSE LET dt_parsed == [i \in DOMAIN cells |-> to_datetime(cells[i])] IN
         IF \E i \in DOMAIN cells : dt_parsed[i] # NaT
         THEN [i \in DOMAIN cells |->
                  IF dt_parsed[i] # NaT
                  THEN Num(Modulo(dt_parsed[i].ns, NsPerSec))
                  ELSE NaN]
         ELSE [i \in DOMAIN cells |-> to_numeric(cells[i], "object")]

(***************************************************************************)
(* The columns the decoder is tried on.                                    *)
(***************************************************************************)
WholeSeconds == {-2, -1, 0, 1}
SubSeconds == {0, 5, 999999999}

TimestampCells == {Ts(s * NsPerSec + n) : s \in WholeSeconds, n \in SubSeconds} \cup {NaT}
NumericCells == {Num(3), Num(-1), Num(0), NaN}
Texts == {"1970-01-01T00:00:01.000000007", "1969-12-31T23:59:59.999999995",
          "12", "bad", "", " "}
ObjectCells == {Str(s) : s \in Texts} \cup {Ts(NsPerSec + 5), NaN}

ColumnsOf(d, C, n) == {[dtype |-> d, cells |-> s] : s \in [1..n -> C]}

Columns ==
    UNION {ColumnsOf("datetime64", TimestampCells, n)
           \cup ColumnsOf("numeric", NumericCells, n)
           \cup ColumnsOf("object", ObjectCells, n) : n \in 0..MaxLen}

InitDecode ==
    /\ dt_series \in Columns
    /\ decoded = Null
    /\ pc = "column"
    /\ input = Null /\ df = Null /\ out = Null /\ summary = Null /\ round = 0
    /\ sheet = Null /\ observations = Null
    /\ subset = Null /\ shannon = Null

ExtractCount ==
    /\ pc = "column"
    /\ decoded' = extract_count_from_datetime(dt_series)
    /\ pc' = "decoded"
    /\ UNCHANGED <<dt_series, cleanVars, loadVars, indexVars>>

NextDecode == ExtractCount

SpecDecode == InitDecode /\ [][NextDecode]_vars

(***************************************************************************)
(* load_excel_data: the assembly of individual_count from the four         *)
(* detection-method columns of the observation sheet.                      *)
(***************************************************************************)
count_cols == <<"count_auditory", "count_visual_no_flight",
                "count_audio_visual_no_flight", "count_audio_visual_flight">>

\* df_obs[col] = pd.to_numeric(df_obs[col], errors='coerce')
NumericColumn(col) == [i \in DOMAIN col.cells |-> to_numeric(col.cells[i], col.dtype)]

\* a missing value counts as 0 in sum(axis=1)
SkipNa(x) == IF x.k = "num" THEN x.v ELSE 0

\* df_obs['individual_count'] = df_obs[count_cols].sum(axis=1)
individual_count(sh) ==
    LET numeric == [j \in DOMAIN count_cols |-> NumericColumn(sh[count_cols[j]])] IN
    [i \in DOMAIN sh[count_cols[1]].cells |->
        Num(SkipNa(numeric[1][i]) + SkipNa(numeric[2][i])
            + SkipNa(numeric[3][i]) + SkipNa(numeric[4][i]))]

\* The count columns of a sheet of n rows: timestamp columns without empty
\* cells (the int64 view of an empty one is outside TLC's integers), numeric
\* columns and object columns.  Only the first column holds a timestamp past
\* the first second, so that a row's sum stays inside TLC's integers.
SheetColumns(c, n) ==
    ColumnsOf("datetime64",
              IF c = count_cols[1] THEN {Ts(5), Ts(NsPerSec + 7)} ELSE {Ts(5), Ts(7)}, n)
    \cup ColumnsOf("numeric", {Num(2), NaN}, n)
    \cup ColumnsOf("object", {Str("12"), Ts(NsPerSec + 5), NaN}, n)

Sheets ==
    UNION {{sh \in [{count_cols[j] : j \in DOMAIN count_cols}
                      -> UNION {SheetColumns(count_cols[j], n) : j \in DOMAIN count_cols}] :
               \A j \in DOMAIN count_cols :
                   sh[count_cols[j]] \in SheetColumns(count_cols[j], n)} :
              n \in 1..MaxSheetRows}

InitLoad ==
    /\ sheet \in Sheets
    /\ observations = Null
    /\ pc = "sheet"
    /\ input = Null /\ df = Null /\ out = Null /\ summary = Null /\ round = 0
    /\ dt_series = Null /\ decoded = Null
    /\ subset = Null /\ shannon = Null

LoadExcelData ==
    /\ pc = "sheet"
    /\ observations' = individual_count(sheet)
    /\ pc' = "loaded"
    /\ UNCHANGED <<sheet, cleanVars, decodeVars, indexVars>>

NextLoad == LoadExcelData

SpecLoad == InitLoad /\ [][NextLoad]_vars

(***************************************************************************)
(* Properties of the Count Decoder and of the count assembly.              *)
(***************************************************************************)
Decoded == pc = "decoded"

\* C5: every individual_count load_excel_data produces is the sum over the four
\* detection-method columns of what extract_count_from_datetime returns for the
\* row's cell, a missing decoded value counted as 0.
C5_CountIsSumOfDecoded ==
    pc = "loaded" =>
        \A i \in DOMAIN observations :
            LET part(j) ==
                    LET x == extract_count_from_datetime(sheet[count_cols[j]])[i]
                    IN  IF x = NaN THEN 0 ELSE x.v
            IN  observations[i] = Num(part(1) + part(2) + part(3) + part(4))

\* C6: in an object column every value that parses as a timestamp decodes to
\* its nanosecond count and every value that does not is decoded by numeric
\* coercion of that value, whatever the other values of the column are.
C6_MixedColumnPerValue ==
    (Decoded /\ dt_series.dtype = "object") =>
        \A i \in DOMAIN dt_series.cells :
            LET c == dt_series.cells[i] IN
            IF to_datetime(c) # NaT
            THEN decoded[i] = Num(to_datetime(c).ns % NsPerSec)
            ELSE decoded[i] = (IF c.k = "str" THEN ParseNumber(c.s) ELSE NaN)

\* C7: in a datetime64 column a timestamp whose sub-second offset is n
\* nanoseconds, 0 <= n < 1e9, decodes to n whatever its whole-second part is,
\* before the epoch too; every such decoded value lies in [0, 1e9).
C7_SubSecondNanoseconds ==
    (Decoded /\ dt_series.dtype = "datetime64") =>
        \A i \in DOMAIN dt_series.cells :
            dt_series.cells[i].k = "ts" =>
                /\ \A s \in WholeSeconds, n \in SubSeconds :
                      dt_series.cells[i].ns = s * NsPerSec + n => decoded[i] = Num(n)
                /\ decoded[i].k = "num"
                /\ 0 <= decoded[i].v /\ decoded[i].v < NsPerSec

\* a timestamp before the epoch with a non-zero sub-second offset
C7_Witness ==
    /\ Decoded /\ dt_series.dtype = "datetime64"
    /\ \E i \in DOMAIN dt_series.cells :
          /\ dt_series.cells[i] = Ts((0 - 2) * NsPerSec + 5)
          /\ decoded[i] = Num(5)

\* An empty, blank or undecodable cell of a column of dtype d.
Undecodable(c, d) ==
    CASE d = "datetime64" -> c = NaT
      [] d = "numeric" -> c = NaN
      [] OTHER -> \/ c = NaN
                  \/ c.k = "str" /\ ParseTimestamp(c.s) = NaT /\ ParseNumber(c.s) = NaN

\* C8: the returned column has the length and order of its input, and every
\* empty, blank or undecodable cell is the missing marker, never a number, on
\* all three branches.
C8_UndecodableIsMissing ==
    Decoded =>
        /\ Len(decoded) = Len(dt_series.cells)
        /\ \A i \in DOMAIN dt_series.cells :
              Undecodable(dt_series.cells[i], dt_series.dtype) => decoded[i] = NaN

(***************************************************************************)
(* The Shannon diversity index of one year's subset (Aggregator).  No      *)
(* source file of the repository holds the operation; it is modelled from  *)
(* the design text: group by species_name, sum individual_count per        *)
(* species, p_i = species count / total, index = -SUM p_i ln(p_i) over the *)
(* species with p_i > 0, and the undefined marker when the total is 0.     *)
(* The index is kept in thousandths, with ln rounded to thousandths:       *)
(* -SUM p_i ln(p_i) = (SUM c_i (ln T - ln c_i)) / T for counts c_i of      *)
(* total T.                                                                *)
(***************************************************************************)
Undefined == [k |-> "undefined"]

\* 1000 * ln(n), rounded, for n = 1..12
LnMilli == <<0, 693, 1099, 1386, 1609, 1792, 1946, 2079, 2197, 2303, 2398, 2485>>

SpeciesOf(s) == {s[i].species_name : i \in DOMAIN s}

\* sum of individual_count of the rows of species sp
SpeciesCount(s, sp) ==
    SumCounts(SelectSeq(s, LAMBDA r : r.species_name = sp))

RECURSIVE Entropy(_, _, _)
\* SUM over the species in S of c * (ln T - ln c), c the species' count
Entropy(s, S, T) ==
    IF S = {} THEN 0
    ELSE LET sp == CHOOSE x \in S : TRUE
             c == SpeciesCount(s, sp)
         IN  c * (LnMilli[T] - LnMilli[c]) + Entropy(s, S \ {sp}, T)

\* mutant of shannon_index: no test of the total, the empty sum returned as 0.0
shannon_index_no_total_test(s) ==
    LET T == SumCounts(s)
        positive == {sp \in SpeciesOf(s) : SpeciesCount(s, sp) > 0}
    IN  IF T = 0 THEN Num(0) ELSE Num(Entropy(s, positive, T) \div T)

shannon_index(s) ==
    LET T == SumCounts(s)
        positive == {sp \in SpeciesOf(s) : SpeciesCount(s, sp) > 0}
    IN  IF T = 0 THEN Undefined ELSE Num(Entropy(s, positive, T) \div T)

\* The subsets the operation is tried on: rows of up to three species, a
\* count of 0 included.
SubsetRows ==
    {[species_name |-> Str(sp), individual_count |-> Num(c)] :
        sp \in {"A", "B", "C"}, c \in {0, 1, 2}}

Subsets == UNION {[1..n -> SubsetRows] : n \in 0..MaxSubset}

InitIndex ==
    /\ subset \in Subsets
    /\ shannon = Null
    /\ pc = "subset"
    /\ input = Null /\ df = Null /\ out = Null /\ summary = Null /\ round = 0
    /\ dt_series = Null /\ decoded = Null
    /\ sheet = Null /\ observations = Null

ShannonIndex ==
    /\ pc = "subset"
    /\ shannon' = shannon_index(subset)
    /\ pc' = "indexed"
    /\ UNCHANGED <<subset, cleanVars, decodeVars, loadVars>>

NextIndex == ShannonIndex

SpecIndex == InitIndex /\ [][NextIndex]_vars

\* The individuals of species sp in subset s, counted row by row.
Individuals(s, sp) ==
    TotalOf(s, {i \in DOMAIN s : s[i].species_name = sp})

\* C11: the Shannon operation returns the undefined marker, not 0.0, when the
\* subset's total individual count is 0, and returns 0.0 when all individuals
\* of the subset belong to a single species.
C11_ShannonEdgeCases ==
    pc = "indexed" =>
        /\ TotalOf(subset, DOMAIN subset) = 0
              => (shannon = Undefined /\ shannon # Num(0))
        /\ (\E sp \in SpeciesOf(subset) :
               /\ Individuals(subset, sp) > 0
               /\ Individuals(subset, sp) = TotalOf(subset, DOMAIN subset))
              => shannon = Num(0)

\* a subset with rows whose counts are all 0
C11_Witness ==
    /\ pc = "indexed"
    /\ Len(subset) >= 2
    /\ Cardinality(SpeciesOf(subset)) >= 2
    /\ shannon = Undefined

(***************************************************************************)
(* The composed pipeline: load_excel_data assembles the observation table  *)
(* from the sheet (counts, year, stripped text columns) and                *)
(* clean_observations filters it.  Here the sheet holds, next to the four  *)
(* count columns, the columns species_name, transect_name, observer_name,  *)
(* date and wind, each a sequence of cells.                                *)
(***************************************************************************)
Date(y) == [k |-> "date", year |-> y]

\* .astype(str) on one cell of a text column: a text stays, an empty cell
\* (NaN) becomes the text "nan"
AsText(c) ==
    CASE c.k = "str" -> c
      [] c.k = "nan" -> Str("nan")

\* .str.strip() on the texts of the sheets below
Strip(c) ==
    CASE c.s = " A " -> Str("A")
      [] c.s = "T1 " -> Str("T1")
      [] OTHER -> c

\* pd.to_datetime(df_obs['date'], errors='coerce') on one cell
ParseDate(c) == IF c.k = "date" THEN c ELSE NaT

\* df_obs['date'].dt.year
YearOf(d) == IF d = NaT THEN NaN ELSE Num(d.year)

\* The 'observations' table load_excel_data returns.
load_observations(sh) ==
    LET counts == individual_count(sh) IN
    [wind_col |-> TRUE, id_col |-> FALSE,
     rows |-> [i \in DOMAIN sh.species_name |->
        [index |-> i - 1,
         year |-> YearOf(ParseDate(sh.date[i])),
         species_name |-> Strip(AsText(sh.species_name[i])),
         transect_name |-> Strip(AsText(sh.transect_name[i])),
         observer_name |-> Strip(AsText(sh.observer_name[i])),
         individual_count |-> counts[i],
         wind |-> sh.wind[i],
         observation_id |-> Absent]]]

\* The sheets the pipeline is run on: rows with a present or empty species,
\* transect, date and first sub-count; the other sub-counts are empty.
PipelineSheets ==
    UNION {
      {[count_auditory |-> [dtype |-> "numeric", cells |-> c],
        count_visual_no_flight |-> [dtype |-> "numeric", cells |-> [i \in 1..n |-> NaN]],
        count_audio_visual_no_flight |-> [dtype |-> "numeric", cells |-> [i \in 1..n |-> NaN]],
        count_audio_visual_flight |-> [dtype |-> "numeric", cells |-> [i \in 1..n |-> NaN]],
        species_name |-> sp, transect_name |-> tr,
        observer_name |-> [i \in 1..n |-> Str("O1")],
        date |-> d, wind |-> [i \in 1..n |-> Num(1)]] :
          c \in [1..n -> {Num(2), NaN}],
          sp \in [1..n -> {Str(" A "), Str("B"), NaN}],
          tr \in [1..n -> {Str("T1 "), NaN}],
          d \in [1..n -> {Date(2012), NaN}]} : n \in 1..MaxPipelineRows}

InitPipeline ==
    /\ sheet \in PipelineSheets
    /\ observations = Null
    /\ pc = "file"
    /\ input = Null /\ df = Null /\ out = Null /\ summary = Null /\ round = 0
    /\ dt_series = Null /\ decoded = Null
    /\ subset = Null /\ shannon = Null

LoadObservations ==
    /\ pc = "file"
    /\ observations' = load_observations(sheet)
    /\ pc' = "assembled"
    /\ UNCHANGED <<sheet, cleanVars, decodeVars, indexVars>>

\* The caller passes the loaded table to clean_observations.
CleanLoaded ==
    /\ pc = "assembled"
    /\ input' = observations
    /\ df' = CallerTable(observations)
    /\ out' = clean_observations(observations)
    /\ round' = 1
    /\ pc' = "pipeline_done"
    /\ UNCHANGED <<summary, loadVars, decodeVars, indexVars>>

NextPipeline == LoadObservations \/ CleanLoaded

SpecPipeline == InitPipeline /\ [][NextPipeline]_vars

\* C12: after load_excel_data and clean_observations, no sheet row whose
\* species_name or transect_name cell is empty is in the cleaned table.
C12_NullTextRowsRemoved ==
    pc = "pipeline_done" =>
        \A i \in DOMAIN sheet.species_name :
            (sheet.species_name[i] = NaN \/ sheet.transect_name[i] = NaN)
               => ~ \E j \in DOMAIN out.df_clean.rows :
                       out.df_clean.rows[j].index = i - 1

====
